---- MODULE Spec2Model ----
(* Model of go/sgauth/default.go: resolution of Application Default        *)
(* Credentials.  One call of a public entry point is followed step by step *)
(* through findJSONCredentials / applicationDefaultCredentials; every      *)
(* access to the environment, the filesystem, the App Engine hooks and the *)
(* metadata service is recorded in log.                                    *)
EXTENDS Integers, Sequences, FiniteSets, TLC

(***************************************************************************)
(* Bounds and enumerated inputs                                            *)
(***************************************************************************)
MaxMembers == 3

LBrace == <<"{">>
RBrace == <<"}">>

TypeValues == {"service_account", "authorized_user", "bogus"}
ProjectValues == {"p1", "p2"}
Members == ({"type"} \X TypeValues) \cup ({"project_id"} \X ProjectValues)

MemberSeqs(n) == UNION {[1..k -> Members] : k \in 0..n}

\* raw documents: well-formed objects, objects cut before the closing brace,
\* and the empty byte string
AllDocs ==
    {<<>>} \cup {<<LBrace>> \o ms \o <<RBrace>> : ms \in MemberSeqs(MaxMembers)}
           \cup {<<LBrace>> \o ms : ms \in MemberSeqs(MaxMembers)}

SampleDocs ==
    { <<LBrace, <<"type", "service_account">>, <<"project_id", "p1">>,
        <<"client_email", "a@b">>, RBrace>>,
      <<LBrace, <<"type", "authorized_user">>, RBrace>>,
      <<LBrace, <<"project_id", "p1">>, RBrace>>,
      <<LBrace, <<"type", "bogus">>, <<"project_id", "p2">>, RBrace>>,
      <<LBrace, <<"type", "service_account">>>>,
      <<LBrace, <<"project_id", "p1">>, <<"type", "service_account">>,
        <<"project_id", "p2">>, RBrace>> }

Scopes == { <<"a", " ", "b">> }
Audiences == { <<"aud">> }

(***************************************************************************)
(* Values                                                                  *)
(***************************************************************************)
NilErr == [nil |-> TRUE, isNotExist |-> FALSE, msg |-> <<>>]
Error(m) == [nil |-> FALSE, isNotExist |-> FALSE, msg |-> m]

NilTS == [kind |-> "nil", arg |-> <<>>, wraps |-> ""]
TokenSource(kind, arg) == [kind |-> kind, arg |-> arg, wraps |-> ""]
NilCreds == [nil |-> TRUE, ProjectID |-> "", TokenSource |-> NilTS, JSON |-> <<>>]
Credentials(id, ts, json) ==
    [nil |-> FALSE, ProjectID |-> id, TokenSource |-> ts, JSON |-> json]

Range(s) == {s[i] : i \in 1..Len(s)}

envVar == "GOOGLE_APPLICATION_CREDENTIALS"
url == "https://developers.google.com/accounts/docs/application-default-credentials"
EnvPath == <<"creds", "key.json">>

(***************************************************************************)
(* State                                                                   *)
(***************************************************************************)
VARIABLES
    env,                 \* process environment: variable name -> value (a path, <<>> when unset)
    platform,            \* runtime.GOOS and the outcome of user.Current()
    fs,                  \* filesystem: path -> state of the file at that path
    appengineTokenFunc,  \* TRUE iff the hook is non-nil
    appengineAppIDFunc,  \* TRUE iff the hook is non-nil
    appengineFlex,
    onGCE,               \* what metadata.OnGCE() answers
    projectID,           \* what metadata.ProjectID() answers: [id, err]
    userDoc,             \* the credentials document the user owns
    entry,               \* the public entry point being executed
    args,                \* the Settings the caller passed
    settings,            \* the Settings applicationDefaultCredentials receives
    pc,                  \* position inside the call
    log,                 \* accesses performed so far, in order
    ctxCancelAt,         \* Len(log) when the context was cancelled, -1 while it is live
    ret,                 \* (creds, err) of findJSONCredentials / applicationDefaultCredentials
    out                  \* (value, err) the entry point returns

vars == <<env, platform, fs, appengineTokenFunc, appengineAppIDFunc, appengineFlex,
          onGCE, projectID, userDoc, entry, args, settings, pc, log, ctxCancelAt,
          ret, out>>

world == <<env, platform, fs, appengineTokenFunc, appengineAppIDFunc, appengineFlex,
           onGCE, projectID, userDoc>>

Settings(scope, aud, json) == [Scope |-> scope, Audience |-> aud, CredentialsJSON |-> json]
EmptySettings == Settings(<<>>, <<>>, <<>>)

Result(c, e) == [creds |-> c, err |-> e]
NoResult == Result(NilCreds, NilErr)
Output(v, e) == [value |-> v, err |-> e]
NoOutput == Output(NilTS, NilErr)

(***************************************************************************)
(* Collaborators outside default.go                                        *)
(***************************************************************************)
\* strings.Split(s, " ") on a string given as a sequence of characters
RECURSIVE SplitFrom(_, _, _)
SplitFrom(s, i, cur) ==
    IF i > Len(s) THEN <<cur>>
    ELSE IF s[i] = " " THEN <<cur>> \o SplitFrom(s, i + 1, <<>>)
    ELSE SplitFrom(s, i + 1, Append(cur, s[i]))
stringsSplit(s) == SplitFrom(s, 1, <<>>)

\* filepath.Join: empty elements are ignored
filepathJoin(elems) ==
    LET RECURSIVE J(_)
        J(i) == IF i > Len(elems) THEN <<>> ELSE elems[i] \o J(i + 1)
    IN J(1)

osGetenv(name) == env[name]

\* ioutil.ReadFile: (bytes, err)
ErrNotExist(filename) ==
    [nil |-> FALSE, isNotExist |-> TRUE,
     msg |-> <<"open">> \o filename \o <<"no such file or directory">>]
ErrPermission(filename) ==
    [nil |-> FALSE, isNotExist |-> FALSE,
     msg |-> <<"open">> \o filename \o <<"permission denied">>]
ioutilReadFile(filename) ==
    IF filename \notin DOMAIN fs \/ fs[filename].st = "absent"
    THEN [b |-> <<>>, err |-> ErrNotExist(filename)]
    ELSE IF fs[filename].st = "denied"
    THEN [b |-> <<>>, err |-> ErrPermission(filename)]
    ELSE [b |-> fs[filename].data, err |-> NilErr]

osIsNotExist(err) == ~err.nil /\ err.isNotExist

\* credentials.File as json.Unmarshal fills it: members are applied from left
\* to right, a later member of the same name overwrites, unknown names are skipped
ZeroFile == [Type |-> "", ProjectID |-> ""]
RECURSIVE decodeMembers(_, _, _)
decodeMembers(ms, i, f) ==
    IF i > Len(ms) THEN f
    ELSE decodeMembers(ms, i + 1,
            IF ms[i][1] = "type" THEN [f EXCEPT !.Type = ms[i][2]]
            ELSE IF ms[i][1] = "project_id" THEN [f EXCEPT !.ProjectID = ms[i][2]]
            ELSE f)

IsMember(tok) == Len(tok) = 2
SyntaxOK(jsonData) ==
    /\ Len(jsonData) >= 2
    /\ jsonData[1] = LBrace
    /\ jsonData[Len(jsonData)] = RBrace
    /\ \A i \in 2..(Len(jsonData) - 1) : IsMember(jsonData[i])

jsonUnmarshal(jsonData) ==
    IF SyntaxOK(jsonData)
    THEN [f |-> decodeMembers(SubSeq(jsonData, 2, Len(jsonData) - 1), 1, ZeroFile),
          err |-> NilErr]
    ELSE [f |-> ZeroFile, err |-> Error(<<"unexpected end of JSON input">>)]

\* credentials.File.TokenSource: dispatch on the type discriminator
FileTokenSource(f, scopes) ==
    IF f.Type \in {"service_account", "authorized_user"}
    THEN [ts |-> TokenSource(f.Type, scopes), err |-> NilErr]
    ELSE IF f.Type = ""
    THEN [ts |-> NilTS, err |-> Error(<<"missing 'type' field in credentials">>)]
    ELSE [ts |-> NilTS, err |-> Error(<<"unknown credential type: ", f.Type>>)]

\* credentials.JWTAccessTokenSourceFromJSON
JWTAccessTokenSourceFromJSON(jsonData, audience) ==
    LET u == jsonUnmarshal(jsonData) IN
    IF ~u.err.nil THEN Output(NilTS, u.err)
    ELSE IF u.f.Type # "service_account"
    THEN Output(NilTS, Error(<<"not a service account key">>))
    ELSE Output(TokenSource("jwt", <<audience>>), NilErr)

AppID == "app-id"
AppEngineTokenSource(scope) == TokenSource("appengine", <<scope>>)
ComputeTokenSource(account) == TokenSource("compute", <<account>>)
GrpcTokenSource(t) == [kind |-> "grpc", arg |-> t.arg, wraps |-> t.kind]

(***************************************************************************)
(* default.go                                                              *)
(***************************************************************************)
guessUnixHomeDir ==
    IF osGetenv("HOME") # <<>> THEN osGetenv("HOME")
    ELSE IF ~platform.userErr THEN platform.userHome
    ELSE <<>>

wellKnownFileName == <<"application_default_credentials.json">>
wellKnownFile ==
    IF platform.GOOS = "windows"
    THEN filepathJoin(<<osGetenv("APPDATA"), <<"gcloud">>, wellKnownFileName>>)
    ELSE filepathJoin(<<guessUnixHomeDir, <<".config">>, <<"gcloud">>, wellKnownFileName>>)

\* variant: an unusable type discriminator is not treated as an error
credentialsFromJSON_DefaultsUnknownType(jsonData, scopes) ==
    LET u == jsonUnmarshal(jsonData) IN
    IF ~u.err.nil THEN Result(NilCreds, u.err)
    ELSE Result(Credentials(u.f.ProjectID, FileTokenSource(u.f, scopes).ts, jsonData), NilErr)

\* variant: the raw document is not stored in the result
credentialsFromJSON_DropsJSON(jsonData, scopes) ==
    LET u == jsonUnmarshal(jsonData) IN
    IF ~u.err.nil THEN Result(NilCreds, u.err)
    ELSE LET t == FileTokenSource(u.f, scopes) IN
         IF ~t.err.nil THEN Result(NilCreds, t.err)
         ELSE Result(Credentials(u.f.ProjectID, t.ts, <<>>), NilErr)

credentialsFromJSON(jsonData, scopes) ==
    LET u == jsonUnmarshal(jsonData) IN
    IF ~u.err.nil THEN Result(NilCreds, u.err)
    ELSE LET t == FileTokenSource(u.f, scopes) IN
         IF ~t.err.nil THEN Result(NilCreds, t.err)
         ELSE Result(Credentials(u.f.ProjectID, t.ts, jsonData), NilErr)

readCredentialsFile(filename, s) ==
    LET r == ioutilReadFile(filename) IN
    IF ~r.err.nil THEN Result(NilCreds, r.err)
    ELSE credentialsFromJSON(r.b, stringsSplit(s.Scope))

\* accesses readCredentialsFile makes
readCredentialsFileLog(filename, tag) ==
    IF ioutilReadFile(filename).err.nil THEN <<"ReadFile:" \o tag, "Unmarshal">>
    ELSE <<"ReadFile:" \o tag>>

EnvErrorPrefix == <<"google: error getting credentials using ", envVar, " environment variable: ">>
WellKnownErrorPrefix(filename) ==
    <<"google: error getting credentials using well-known file (">> \o filename \o <<"): ">>
NotFoundMessage ==
    <<"google: could not find default credentials. See ", url, " for more information.">>

\* variant: the error of the file named by the variable is passed on unwrapped
envProbeReturn_Unwrapped(r) == Result(r.creds, r.err)

\* first probe, once the variable is known to be set: what the function returns
envProbeReturn(r) ==
    IF ~r.err.nil THEN Result(NilCreds, Error(EnvErrorPrefix \o r.err.msg))
    ELSE Result(r.creds, NilErr)

\* variant: every failure of the well-known file is taken as a decline
wellKnownProbeReturns_OnlyOnSuccess(r) == r.err.nil

\* second probe: does the function return here, and with what
wellKnownProbeReturns(r) == r.err.nil \/ ~osIsNotExist(r.err)
wellKnownProbeReturn(filename, r) ==
    IF r.err.nil THEN Result(r.creds, NilErr)
    ELSE Result(NilCreds, Error(WellKnownErrorPrefix(filename) \o r.err.msg))

\* variant: the App Engine branch is taken on App Engine Flex too
appengineProbeTaken_IgnoresFlex == appengineTokenFunc

\* third probe: the guard of the App Engine branch
appengineProbeTaken == appengineTokenFunc /\ ~appengineFlex
appengineProbeReturn(s) == Result(Credentials(AppID, AppEngineTokenSource(s.Scope), <<>>), NilErr)

\* variant: a failed project-id lookup fails resolution
metadataProbeReturn_Strict(p) ==
    IF ~p.err.nil THEN Result(NilCreds, p.err)
    ELSE Result(Credentials(p.id, ComputeTokenSource(<<>>), <<>>), NilErr)

\* fourth probe
metadataProbeReturn(p) == Result(Credentials(p.id, ComputeTokenSource(<<>>), <<>>), NilErr)

\* variant: the terminal error comes with a zero-valued Credentials
exhaustedReturn_Partial == Result(Credentials("", NilTS, <<>>), Error(NotFoundMessage))

exhaustedReturn == Result(NilCreds, Error(NotFoundMessage))

(***************************************************************************)
(* Initial states                                                          *)
(***************************************************************************)
Platforms ==
    { [GOOS |-> "linux", HOME |-> <<"home", "u">>, APPDATA |-> <<>>,
       userHome |-> <<"home", "u">>, userErr |-> FALSE],
      [GOOS |-> "linux", HOME |-> <<>>, APPDATA |-> <<>>,
       userHome |-> <<>>, userErr |-> TRUE],
      [GOOS |-> "windows", HOME |-> <<>>, APPDATA |-> <<"AppData">>,
       userHome |-> <<>>, userErr |-> FALSE] }

Absent == [st |-> "absent", data |-> <<>>]
Denied == [st |-> "denied", data |-> <<>>]
Holding(d) == [st |-> "file", data |-> d]

ProjectIDOutcomes == { [id |-> "proj", err |-> NilErr],
                       [id |-> "", err |-> Error(<<"metadata: lookup failed">>)] }

InitCall ==
    /\ entry = "none"
    /\ args = EmptySettings
    /\ settings = EmptySettings
    /\ pc = "idle"
    /\ log = <<>>
    /\ ctxCancelAt = -1
    /\ ret = NoResult
    /\ out = NoOutput

InitWorld(docs, platforms, fileStates, flags, lookups) ==
    /\ userDoc \in docs
    /\ \E p \in platforms, v \in {<<>>, EnvPath} :
         /\ platform = [GOOS |-> p.GOOS, userHome |-> p.userHome, userErr |-> p.userErr]
         /\ env = [n \in {envVar, "HOME", "APPDATA"} |->
                     IF n = envVar THEN v ELSE IF n = "HOME" THEN p.HOME ELSE p.APPDATA]
    /\ \E e \in fileStates, w \in fileStates :
         fs = [f \in {EnvPath, wellKnownFile} |->
                 LET st == IF f = EnvPath THEN e ELSE w IN
                 IF st = "file" THEN Holding(userDoc)
                 ELSE IF st = "denied" THEN Denied ELSE Absent]
    /\ appengineTokenFunc \in flags
    /\ appengineAppIDFunc \in flags
    /\ appengineFlex \in flags
    /\ onGCE \in flags
    /\ projectID \in lookups

Init ==
    /\ InitWorld(SampleDocs, Platforms, {"absent", "denied", "file"}, BOOLEAN, ProjectIDOutcomes)
    /\ InitCall

\* every document up to MaxMembers members, on one platform with neither
\* App Engine nor a metadata service
InitParse ==
    /\ InitWorld(AllDocs, {p \in Platforms : p.HOME # <<>>}, {"absent", "file"}, {FALSE},
                 {l \in ProjectIDOutcomes : ~l.err.nil})
    /\ InitCall

(***************************************************************************)
(* Entry points                                                            *)
(***************************************************************************)
SettingsValues == {Settings(sc, a, j) : sc \in Scopes, a \in Audiences, j \in {<<>>, userDoc}}

\* the call enters applicationDefaultCredentials with settings s
EnterADC(s) ==
    /\ settings' = s
    /\ pc' = "env"
    /\ UNCHANGED <<log, ret>>

findJSONCredentials(s) ==
    IF s.CredentialsJSON # <<>>
    THEN /\ settings' = s
         /\ ret' = credentialsFromJSON(s.CredentialsJSON, stringsSplit(s.Scope))
         /\ log' = Append(log, "Unmarshal")
         /\ pc' = "return"
    ELSE EnterADC(s)

Call(name, s) ==
    /\ pc = "idle"
    /\ entry' = name
    /\ args' = s
    /\ UNCHANGED <<world, ctxCancelAt, out>>

DefaultTokenSource ==
    \E sc \in Scopes :
        /\ Call("DefaultTokenSource", Settings(sc, <<>>, <<>>))
        /\ EnterADC(Settings(sc, <<>>, <<>>))

OAuthJSONTokenSource ==
    \E s \in SettingsValues :
        /\ Call("OAuthJSONTokenSource", s)
        /\ findJSONCredentials(s)

JWTTokenSource ==
    \E s \in SettingsValues :
        /\ Call("JWTTokenSource", s)
        /\ findJSONCredentials(s)

NewGrpcApplicationDefault ==
    \E s \in SettingsValues :
        /\ Call("NewGrpcApplicationDefault", s)
        /\ EnterADC(Settings(s.Scope, <<>>, <<>>))

NewGrpcJWT ==
    \E aud \in Audiences :
        /\ Call("NewGrpcJWT", Settings(<<>>, aud, <<>>))
        /\ EnterADC(EmptySettings)

(***************************************************************************)
(* applicationDefaultCredentials, probe by probe                           *)
(***************************************************************************)
Step(from) ==
    /\ pc = from
    /\ UNCHANGED <<world, entry, args, settings, ctxCancelAt, out>>

EnvProbe ==
    /\ Step("env")
    /\ LET filename == osGetenv(envVar) IN
       IF filename # <<>>
       THEN /\ ret' = envProbeReturn(readCredentialsFile(filename, settings))
            /\ log' = log \o <<"Getenv">> \o readCredentialsFileLog(filename, "env")
            /\ pc' = "return"
       ELSE /\ log' = Append(log, "Getenv")
            /\ pc' = "wellknown"
            /\ UNCHANGED ret

WellKnownProbe ==
    /\ Step("wellknown")
    /\ LET filename == wellKnownFile
           r == readCredentialsFile(filename, settings) IN
       /\ log' = log \o <<"Getenv:home">> \o readCredentialsFileLog(filename, "wellknown")
       /\ IF wellKnownProbeReturns(r)
          THEN /\ ret' = wellKnownProbeReturn(filename, r)
               /\ pc' = "return"
          ELSE /\ pc' = "appengine"
               /\ UNCHANGED ret

AppEngineProbe ==
    /\ Step("appengine")
    /\ IF appengineProbeTaken
       THEN IF appengineAppIDFunc
            THEN /\ log' = log \o <<"appengine?", "appengineAppIDFunc()", "AppEngineTokenSource()">>
                 /\ ret' = appengineProbeReturn(settings)
                 /\ pc' = "return"
            ELSE \* calling a nil func value panics
                 /\ log' = log \o <<"appengine?", "appengineAppIDFunc()">>
                 /\ pc' = "panic"
                 /\ UNCHANGED ret
       ELSE /\ log' = Append(log, "appengine?")
            /\ pc' = "metadata"
            /\ UNCHANGED ret

MetadataProbe ==
    /\ Step("metadata")
    /\ IF onGCE
       THEN /\ log' = log \o <<"OnGCE", "ProjectID">>
            /\ ret' = metadataProbeReturn(projectID)
       ELSE /\ log' = Append(log, "OnGCE")
            /\ ret' = exhaustedReturn
    /\ pc' = "return"

(***************************************************************************)
(* What the entry point makes of (creds, err)                              *)
(***************************************************************************)
entryOutput(name, r, s) ==
    CASE name \in {"DefaultTokenSource", "OAuthJSONTokenSource"} ->
            IF ~r.err.nil THEN Output(NilTS, r.err) ELSE Output(r.creds.TokenSource, NilErr)
      [] name = "JWTTokenSource" ->
            IF ~r.err.nil THEN Output(NilTS, r.err)
            ELSE JWTAccessTokenSourceFromJSON(r.creds.JSON, s.Audience)
      [] name = "NewGrpcApplicationDefault" ->
            IF ~r.err.nil THEN Output(NilTS, r.err)
            ELSE Output(GrpcTokenSource(r.creds.TokenSource), NilErr)
      [] name = "NewGrpcJWT" ->
            IF ~r.creds.nil
            THEN LET j == JWTAccessTokenSourceFromJSON(r.creds.JSON, s.Audience) IN
                 IF ~j.err.nil THEN Output(NilTS, j.err)
                 ELSE Output(GrpcTokenSource(j.value), NilErr)
            ELSE Output(NilTS, r.err)

Return ==
    /\ pc = "return"
    /\ out' = entryOutput(entry, ret, args)
    /\ pc' = "done"
    /\ UNCHANGED <<world, entry, args, settings, log, ctxCancelAt, ret>>

\* the caller cancels the context while the call is in progress or before it
Cancel ==
    /\ pc \notin {"done", "panic"}
    /\ ctxCancelAt = -1
    /\ ctxCancelAt' = Len(log)
    /\ UNCHANGED <<world, entry, args, settings, pc, log, ret, out>>

Next ==
    \/ DefaultTokenSource
    \/ OAuthJSONTokenSource
    \/ JWTTokenSource
    \/ NewGrpcApplicationDefault
    \/ NewGrpcJWT
    \/ EnvProbe
    \/ WellKnownProbe
    \/ AppEngineProbe
    \/ MetadataProbe
    \/ Return
    \/ Cancel

Spec == Init /\ [][Next]_vars
SpecParse == InitParse /\ [][Next]_vars

(***************************************************************************)
(* Vocabulary of the properties                                            *)
(***************************************************************************)
Logged(e) == e \in Range(log)
Returned == pc \in {"return", "done"}
EnvSet == env[envVar] # <<>>

\* a document as its reader sees it, independently of the decoder
IsObject(d) == Len(d) >= 2 /\ d[1] = LBrace /\ d[Len(d)] = RBrace
FieldOf(d, key) ==
    LET at == {i \in 1..Len(d) : Len(d[i]) = 2 /\ d[i][1] = key} IN
    IF at = {} THEN ""
    ELSE d[CHOOSE i \in at : \A j \in at : j <= i][2]
KnownTypes == {"service_account", "authorized_user"}
Usable(d) == IsObject(d) /\ FieldOf(d, "type") \in KnownTypes

FileAt(path) == IF path \in DOMAIN fs THEN fs[path] ELSE Absent
FileFails(path) == FileAt(path).st # "file" \/ ~Usable(FileAt(path).data)

IsPrefix(p, m) == Len(p) <= Len(m) /\ SubSeq(m, 1, Len(p)) = p

LaterProbes == {"Getenv:home", "ReadFile:wellknown", "appengine?", "appengineAppIDFunc()",
                "AppEngineTokenSource()", "OnGCE", "ProjectID"}
AfterWellKnown == {"appengine?", "appengineAppIDFunc()", "AppEngineTokenSource()",
                   "OnGCE", "ProjectID"}

(***************************************************************************)
(* C1                                                                      *)
(***************************************************************************)
\* C1: for OAuthJSONTokenSource, JWTTokenSource and NewGrpcApplicationDefault,
\* a non-empty settings.CredentialsJSON means the document is parsed and the
\* environment, the filesystem, the App Engine hooks and the metadata service
\* are never touched.
C1_ExplicitJSONNeverProbes ==
    (/\ entry \in {"OAuthJSONTokenSource", "JWTTokenSource", "NewGrpcApplicationDefault"}
     /\ args.CredentialsJSON # <<>>)
    => /\ Range(log) \subseteq {"Unmarshal"}
       /\ Returned => Logged("Unmarshal")

(***************************************************************************)
(* C2                                                                      *)
(***************************************************************************)
\* C2: when GOOGLE_APPLICATION_CREDENTIALS is set and reading or parsing the
\* file it names fails, applicationDefaultCredentials returns nil Credentials
\* and an error naming the variable, and no later probe is consulted.
C2_EnvFailureIsFatal ==
    (Logged("Getenv") /\ EnvSet /\ FileFails(env[envVar]))
    => /\ Returned
       /\ ret.creds.nil
       /\ ~ret.err.nil
       /\ envVar \in Range(ret.err.msg)
       /\ Range(log) \cap LaterProbes = {}

C2_Witness ==
    /\ pc = "done"
    /\ EnvSet
    /\ FileAt(env[envVar]).st = "absent"
    /\ Logged("ReadFile:env")

(***************************************************************************)
(* C3                                                                      *)
(***************************************************************************)
FellThrough == pc \in {"appengine", "metadata", "panic"} \/ Range(log) \cap AfterWellKnown # {}

\* C3: once the well-known file has been probed (the variable being unset),
\* resolution goes on to the next probe exactly when the file does not exist;
\* any other read error or parse error returns at once an error naming the
\* well-known path, with nil Credentials.
C3_WellKnownDeclineOrFatal ==
    Logged("ReadFile:wellknown")
    => /\ ~EnvSet
       /\ FellThrough <=> FileAt(wellKnownFile).st = "absent"
       /\ (FileAt(wellKnownFile).st # "absent" /\ FileFails(wellKnownFile))
          => /\ Returned
             /\ ret.creds.nil
             /\ ~ret.err.nil
             /\ IsPrefix(<<"google: error getting credentials using well-known file (">>
                           \o wellKnownFile, ret.err.msg)

C3_Witness ==
    /\ pc = "done"
    /\ Logged("ReadFile:wellknown")
    /\ FileAt(wellKnownFile).st = "denied"
    /\ onGCE

(***************************************************************************)
(* C4                                                                      *)
(***************************************************************************)
Rank(e) ==
    CASE e \in {"Getenv", "ReadFile:env"} -> 1
      [] e \in {"Getenv:home", "ReadFile:wellknown"} -> 2
      [] e \in {"appengine?", "appengineAppIDFunc()", "AppEngineTokenSource()"} -> 3
      [] e \in {"OnGCE", "ProjectID"} -> 4
      [] OTHER -> 0

ProbesInOrder ==
    \A i, j \in 1..Len(log) :
        (i < j /\ Rank(log[i]) > 0 /\ Rank(log[j]) > 0) => Rank(log[i]) <= Rank(log[j])

ManagedRuntimeResult ==
    Result(Credentials(AppID, AppEngineTokenSource(settings.Scope), <<>>), NilErr)

FilesDecline == ~EnvSet /\ FileAt(wellKnownFile).st = "absent"
PastAppEngine == pc \in {"metadata", "return", "done"} /\ Logged("appengine?")

\* C4 as stated: whenever the file probes decline and the token hook is
\* non-nil, the result is the managed-runtime credential and the metadata
\* service is never queried.
C4_TokenHookAlwaysWins ==
    (PastAppEngine /\ appengineTokenFunc)
    => /\ pc # "metadata"
       /\ ~Logged("OnGCE")
       /\ ret = ManagedRuntimeResult

\* C4 amended: the probes run in the order environment variable, well-known
\* file, managed runtime, metadata service, and a returned credential is that
\* of the first probe that finds one, where the managed-runtime probe finds
\* one exactly when the token hook is non-nil and appengineFlex is false.
C4_FirstFinderWins ==
    /\ ProbesInOrder
    /\ (Returned /\ Logged("Getenv") /\ EnvSet /\ ~FileFails(env[envVar]))
       => /\ ret.creds.JSON = FileAt(env[envVar]).data
          /\ Range(log) \cap LaterProbes = {}
    /\ (Returned /\ Logged("Getenv") /\ ~EnvSet /\ ~FileFails(wellKnownFile))
       => /\ ret.creds.JSON = FileAt(wellKnownFile).data
          /\ Range(log) \cap AfterWellKnown = {}
    /\ (Logged("appengine?") /\ appengineTokenFunc /\ ~appengineFlex)
       => /\ FilesDecline
          /\ pc # "metadata"
          /\ ~Logged("OnGCE")
          /\ Returned => ret = ManagedRuntimeResult
    /\ (Returned /\ Logged("appengine?") /\ ~(appengineTokenFunc /\ ~appengineFlex))
       => /\ FilesDecline
          /\ Logged("OnGCE")
          /\ onGCE => (ret.err.nil /\ ret.creds.TokenSource = ComputeTokenSource(<<>>))
          /\ ~onGCE => ret.creds.nil

C4_Witness ==
    /\ pc = "done"
    /\ ret = ManagedRuntimeResult
    /\ appengineTokenFunc /\ ~appengineFlex
    /\ onGCE
    /\ Logged("AppEngineTokenSource()")

(***************************************************************************)
(* C5                                                                      *)
(***************************************************************************)
CancelledBeforeIO ==
    /\ ctxCancelAt >= 0
    /\ \E i \in (ctxCancelAt + 1)..Len(log) :
           log[i] \in {"ReadFile:env", "ReadFile:wellknown", "OnGCE"}

\* C5: if the context is cancelled before or while the environment-variable,
\* well-known-file or metadata probe runs, resolution returns a cancellation
\* error, with nil Credentials, and consults no later probe.
C5_CancellationAborts ==
    (Returned /\ CancelledBeforeIO)
    => /\ ret.creds.nil
       /\ ~ret.err.nil
       /\ "context canceled" \in Range(ret.err.msg)

(***************************************************************************)
(* C6                                                                      *)
(***************************************************************************)
\* C6: when every probe declines the result is nil Credentials with the
\* "could not find default credentials" error referencing the documentation
\* URL; and no result ever pairs non-nil Credentials with a non-nil error.
C6_ExhaustedOrWhole ==
    Returned
    => /\ ~(~ret.creds.nil /\ ~ret.err.nil)
       /\ (Logged("Getenv") /\ FilesDecline /\ ~appengineTokenFunc /\ ~onGCE)
          => /\ ret.creds = NilCreds
             /\ ~ret.err.nil
             /\ url \in Range(ret.err.msg)
             /\ ret.err.msg[1] = "google: could not find default credentials. See "

C6_Witness ==
    /\ pc = "done"
    /\ FilesDecline /\ ~appengineTokenFunc /\ ~onGCE
    /\ Logged("OnGCE")
    /\ ~ret.err.nil

(***************************************************************************)
(* C7                                                                      *)
(***************************************************************************)
\* C7: a document whose type discriminator is missing or unknown never yields
\* Credentials; parsing it fails with an error that is not a not-found error,
\* so as the well-known file it ends resolution instead of declining.
C7_UnknownTypeIsParseError ==
    (Logged("Unmarshal") /\ IsObject(userDoc) /\ FieldOf(userDoc, "type") \notin KnownTypes)
    => /\ Returned
       /\ ret.creds.nil
       /\ ~ret.err.nil
       /\ ~osIsNotExist(ret.err)
       /\ ~FellThrough

C7_Witness ==
    /\ pc = "done"
    /\ Logged("ReadFile:wellknown")
    /\ Logged("Unmarshal")
    /\ IsObject(userDoc)
    /\ FieldOf(userDoc, "type") = ""
    /\ onGCE

(***************************************************************************)
(* C8                                                                      *)
(***************************************************************************)
\* C8: whenever a document is parsed successfully, from explicit JSON, the
\* environment-variable file or the well-known file, the Credentials carry
\* the document unchanged in JSON and its project_id in ProjectID, "" when
\* the document has none.
C8_RawBytesAndProjectID ==
    (Returned /\ Logged("Unmarshal") /\ ~ret.creds.nil)
    => /\ ret.creds.JSON = userDoc
       /\ ret.creds.ProjectID = FieldOf(userDoc, "project_id")

C8_Witness ==
    /\ pc = "done"
    /\ Logged("ReadFile:wellknown")
    /\ userDoc = <<LBrace, <<"project_id", "p1">>, <<"type", "service_account">>,
                   <<"project_id", "p2">>, RBrace>>
    /\ ret.creds.JSON = userDoc
    /\ ret.creds.ProjectID = "p2"

(***************************************************************************)
(* C9                                                                      *)
(***************************************************************************)
\* C9: when the metadata probe is reached and OnGCE answers yes, resolution
\* succeeds whether or not the project-id lookup fails; on failure ProjectID
\* is empty, the token source is the metadata one and JSON is empty.
C9_MetadataLookupBestEffort ==
    (Returned /\ Logged("OnGCE") /\ onGCE)
    => /\ ret.err.nil
       /\ ~ret.creds.nil
       /\ ret.creds.TokenSource = ComputeTokenSource(<<>>)
       /\ ret.creds.JSON = <<>>
       /\ ret.creds.ProjectID = (IF projectID.err.nil THEN projectID.id ELSE "")

C9_Witness ==
    /\ pc = "done"
    /\ Logged("ProjectID")
    /\ ~projectID.err.nil
    /\ ~ret.creds.nil

(***************************************************************************)
(* C10                                                                     *)
(***************************************************************************)
\* C10: neither App Engine hook is ever called while it is nil, whatever
\* combination of the two hooks is present.
C10_HooksCheckedBeforeUse ==
    /\ Logged("appengineAppIDFunc()") => appengineAppIDFunc
    /\ Logged("AppEngineTokenSource()") => appengineTokenFunc

====
